---- MODULE Spec2Model ----
(***************************************************************************)
(* Model of genetic_algorithm/core.py: class GeneticAlgorithm.             *)
(*                                                                         *)
(* A candidate ("model") is an object; it is modelled by its identity, a   *)
(* number 1, 2, ... in order of creation by the ModelMaker.  fitness[id]   *)
(* is the candidate's fitness slot.  A fraction is modelled as a pair      *)
(* <<numerator, denominator>>, so floor(frac * popSize) is                 *)
(* (numerator * popSize) \div denominator.  Fractions are taken in [0, 1]. *)
(*                                                                         *)
(* evolve() is modelled phase by phase (pc); an exception raised by a      *)
(* phase ends the call and leaves the object as it is at that point, and   *)
(* the caller may call evolve() again.                                     *)
(***************************************************************************)
EXTENDS Integers, Sequences, FiniteSets, TLC

\* ---------------------------------------------------------------- bounds
\* generations started over the life of one controller
MaxGens == 2
\* the largest threshold passed to evolve()
MaxItersArg == 1
\* the most outcomes the bottom-keep draw from a full population may have
\* in a configuration that is explored
MaxDraws == 6
\* the inputs of the constructor and the values the scorer returns
PopSizes == {3, 4}
FracValues == {<<0, 1>>, <<1, 3>>, <<1, 2>>, <<2, 3>>, <<1, 1>>}
FitnessValues == {0, 1}

\* Python's None (fitness unset, no bestModel, argument omitted)
None == -1

IterArgs == {None, 0, MaxItersArg}

VARIABLES
    \* self.* set by __init__
    popSize, keepTopFrac, keepBtmFrac, makeChildFrac, keepGraveyard,
    population, graveyard, bestModel,
    \* the candidates' fitness slots, by identity
    fitness,
    \* ModelScorer.scoreModel invocations, by candidate identity
    scoreCalls,
    \* evolve(): arguments, locals, position and how the last call ended
    maxIters, maxItersNoImprov, iters, itersNoImprov, stopCond, pc, outcome,
    \* _killUnfit's locals at its return, kept until breeding ends
    cull,
    \* _makeChildren's locals: the batch so far, the pair drawn last, and the
    \* child handed to mutateModel (kept until the generation ends)
    children, parents, childToMutate,
    \* history: generations started / completed over the controller's life,
    \* population size at the start of the current generation, and the sum
    \* over all cullings of (pre-cull size - keepTopN - keepBtmN)
    gens, completed, genStartLen, cullSum

config == <<popSize, keepTopFrac, keepBtmFrac, makeChildFrac, keepGraveyard>>
locals == <<maxIters, maxItersNoImprov, iters, itersNoImprov, stopCond>>
hist == <<gens, completed, genStartLen, cullSum>>
breed == <<children, parents, childToMutate>>
vars == <<config, population, graveyard, bestModel, fitness, scoreCalls,
          locals, pc, outcome, cull, breed, hist>>

\* ------------------------------------------------------------- __init__
\* rounding up in place of np.floor
FloorOf_Ceil(frac, n) == (frac[1] * n + frac[2] - 1) \div frac[2]

\* int(np.floor(frac * popSize)), lines 54-56
FloorOf(frac, n) == (frac[1] * n) \div frac[2]
keepTopN == FloorOf(keepTopFrac, popSize)
keepBtmN == FloorOf(keepBtmFrac, popSize)
makeChildN == FloorOf(makeChildFrac, popSize)

\* assert keepTopFrac + keepBtmFrac + makeChildFrac <= 1, line 41
FracsAccepted(t, b, c) ==
    t[1] * b[2] * c[2] + b[1] * t[2] * c[2] + c[1] * t[2] * b[2]
        <= t[2] * b[2] * c[2]

\* np.random.choice(a, size=n, replace=False): an ordered draw of n distinct
\* elements of a
Choice(a, n) == {s \in [1..n -> a] : \A i, j \in 1..n : i # j => s[i] # s[j]}

\* the configurations explored: those whose bottom-keep draw from popSize
\* candidates has at most MaxDraws outcomes
Explored(p, t, b) ==
    Cardinality(Choice((FloorOf(t, p) + 1)..p, FloorOf(b, p))) <= MaxDraws

NoCull == [pre |-> <<>>, top |-> {}, btm |-> <<>>]

Init ==
    /\ popSize \in PopSizes
    /\ keepTopFrac \in FracValues
    /\ keepBtmFrac \in FracValues
    /\ makeChildFrac \in FracValues
    /\ FracsAccepted(keepTopFrac, keepBtmFrac, makeChildFrac)
    /\ Explored(popSize, keepTopFrac, keepBtmFrac)
    /\ keepGraveyard \in BOOLEAN
    /\ population = <<>>
    /\ graveyard = <<>>
    /\ bestModel = None
    /\ fitness = <<>>
    /\ scoreCalls = <<>>
    /\ maxIters = None
    /\ maxItersNoImprov = None
    /\ iters = 0
    /\ itersNoImprov = 0
    /\ stopCond = FALSE
    /\ pc = "idle"
    /\ outcome = "none"
    /\ cull = NoCull
    /\ children = <<>>
    /\ parents = <<>>
    /\ childToMutate = None
    /\ gens = 0
    /\ completed = 0
    /\ genStartLen = 0
    /\ cullSum = 0

\* ------------------------------------------------------------- helpers
Range(s) == {s[i] : i \in DOMAIN s}

\* n fresh candidates from the ModelMaker, all with unset fitness
NewIds(n) == [i \in 1..n |-> Len(fitness) + i]
Unset(n) == [i \in 1..n |-> None]
NoCalls(n) == [i \in 1..n |-> 0]

\* an insertion that puts a candidate before those of equal fitness
RECURSIVE InsertByFitness_Unstable(_, _, _)
InsertByFitness_Unstable(m, sorted, fit) ==
    IF sorted = <<>> THEN <<m>>
    ELSE IF fit[Head(sorted)] > fit[m]
         THEN <<Head(sorted)>> \o InsertByFitness_Unstable(m, Tail(sorted), fit)
         ELSE <<m>> \o sorted

\* list.sort(key=fitness, reverse=True): descending and stable
RECURSIVE InsertByFitness(_, _, _)
InsertByFitness(m, sorted, fit) ==
    IF sorted = <<>> THEN <<m>>
    ELSE IF fit[Head(sorted)] >= fit[m]
         THEN <<Head(sorted)>> \o InsertByFitness(m, Tail(sorted), fit)
         ELSE <<m>> \o sorted

RECURSIVE SortByFitness(_, _)
SortByFitness(pop, fit) ==
    IF pop = <<>> THEN <<>>
    ELSE InsertByFitness(pop[Len(pop)],
                         SortByFitness(SubSeq(pop, 1, Len(pop) - 1), fit), fit)

\* the sort without reverse=True: ascending
SortPopAscending(pop) ==
    SortByFitness(pop, [m \in DOMAIN fitness |-> 0 - fitness[m]])

SortPopByFitness(pop) == SortByFitness(pop, fitness)

\* the tail of the sorted population instead of its head
GetBestModel_Last(sorted) == sorted[Len(sorted)]

\* _getBestModel: sort, then the head of the population
GetBestModel(sorted) == sorted[1]

\* evolve, lines 93-101: the stopping condition
StopCondition(mi, mni, it, itNo) ==
    IF mi # None /\ itNo # None THEN it = mi \/ itNo = mni
    ELSE IF mi # None THEN it = mi
    ELSE itNo = mni

\* the comparison with >= in place of >
Improves_NotStrict(best) ==
    bestModel = None \/ fitness[best] >= fitness[bestModel]

\* evolve, lines 107-109
Improves(best) ==
    bestModel = None \/ fitness[best] > fitness[bestModel]

\* scoring without the "fitness is None" test
ToScore_All(pop) == Range(pop)

\* the scoring loop skipped
ToScore_Nobody(pop) == {}

\* _scoreModelsInPop: the members the scorer is invoked on
ToScore(pop) == {m \in Range(pop) : fitness[m] = None}

\* ----------------------------------------------------------- operations
\* evolve(maxIters=mi, maxItersNoImprov=mni), lines 85-101
\* the entry assertion left out
EntryAssert_Skipped(mi, mni) == TRUE

EntryAssert(mi, mni) == mi # None \/ mni # None

\* initialization whatever the population holds
NeedsInit_Always(pop) == TRUE

\* evolve, line 87
NeedsInit(pop) == Len(pop) = 0

Evolve(mi, mni) ==
    /\ pc = "idle"
    /\ maxIters' = mi
    /\ maxItersNoImprov' = mni
    /\ IF ~EntryAssert(mi, mni)
       THEN /\ outcome' = "AssertionError"
            /\ pc' = "idle"
            /\ UNCHANGED <<population, fitness, scoreCalls, iters,
                           itersNoImprov, stopCond>>
       ELSE /\ IF NeedsInit(population)
               THEN \* _initializePop
                    /\ population' = NewIds(popSize)
                    /\ fitness' = fitness \o Unset(popSize)
                    /\ scoreCalls' = scoreCalls \o NoCalls(popSize)
               ELSE UNCHANGED <<population, fitness, scoreCalls>>
            /\ iters' = 0
            /\ itersNoImprov' = 0
            /\ stopCond' = StopCondition(mi, mni, 0, 0)
            /\ outcome' = "running"
            /\ pc' = "while"
    /\ UNCHANGED <<config, graveyard, bestModel, cull, breed, hist>>

\* evolve, line 103 (loop test) and lines 123-127 (return)
LoopTest ==
    /\ pc = "while"
    /\ IF stopCond
       THEN pc' = "idle" /\ outcome' = "returned"
       ELSE pc' = "score" /\ UNCHANGED outcome
    /\ UNCHANGED <<config, population, graveyard, bestModel, fitness,
                   scoreCalls, locals, cull, breed, hist>>

\* _scoreModelsInPop, lines 136-142
ScoreModelsInPop ==
    /\ pc = "score"
    /\ gens < MaxGens
    /\ \E score \in [ToScore(population) -> FitnessValues] :
         /\ fitness' = [m \in DOMAIN fitness |->
                          IF m \in DOMAIN score THEN score[m] ELSE fitness[m]]
         /\ scoreCalls' = [m \in DOMAIN scoreCalls |->
                          IF m \in DOMAIN score THEN scoreCalls[m] + 1
                          ELSE scoreCalls[m]]
    /\ gens' = gens + 1
    /\ genStartLen' = Len(population)
    /\ pc' = "track"
    /\ UNCHANGED <<config, population, graveyard, bestModel, locals, outcome,
                   cull, breed, completed, cullSum>>

\* evolve, lines 105-114: _getBestModel and the best-so-far comparison
TrackBest ==
    /\ pc = "track"
    /\ LET sorted == SortPopByFitness(population)
           best == GetBestModel(sorted)
       IN /\ population' = sorted
          /\ IF Improves(best)
             THEN bestModel' = best /\ itersNoImprov' = 0
             ELSE bestModel' = bestModel /\ itersNoImprov' = itersNoImprov + 1
    /\ iters' = iters + 1
    /\ pc' = "kill"
    /\ UNCHANGED <<config, graveyard, fitness, scoreCalls, maxIters,
                   maxItersNoImprov, stopCond, outcome, cull, breed, hist>>

\* _killUnfit, lines 149-171
TopKeepInds == 1..keepTopN
\* the bottom draw taken from all indices
RemainingInds_All(pop) == 1..Len(pop)

RemainingInds(pop) == (1..Len(pop)) \ TopKeepInds
\* keepMods without the top-keep candidates
KeepMods_BtmOnly(sorted, btmKeepInds) ==
    [j \in 1..Len(btmKeepInds) |-> sorted[btmKeepInds[j]]]

KeepMods(sorted, btmKeepInds) ==
    [i \in 1..keepTopN |-> sorted[i]]
        \o [j \in 1..Len(btmKeepInds) |-> sorted[btmKeepInds[j]]]
UnfitMods(sorted, keepMods) ==
    SelectSeq(sorted, LAMBDA m : m \notin Range(keepMods))
\* "=" in place of "+=" at line 170
Buried_Replace(unfitMods) == IF keepGraveyard THEN unfitMods ELSE graveyard

Buried(unfitMods) == IF keepGraveyard THEN graveyard \o unfitMods ELSE graveyard

KillUnfit ==
    /\ pc = "kill"
    /\ LET sorted == SortPopByFitness(population)
       IN /\ keepTopN <= Len(sorted)
          /\ \E btmKeepInds \in Choice(RemainingInds(sorted), keepBtmN) :
               LET keepMods == KeepMods(sorted, btmKeepInds)
                   unfitMods == UnfitMods(sorted, keepMods)
               IN /\ population' = keepMods
                  /\ graveyard' = Buried(unfitMods)
                  /\ cull' = [pre |-> sorted, top |-> TopKeepInds,
                              btm |-> btmKeepInds]
                  /\ cullSum' = cullSum + (Len(sorted) - keepTopN - keepBtmN)
    /\ pc' = "breed"
    /\ UNCHANGED <<config, bestModel, fitness, scoreCalls, locals, outcome,
                   breed, gens, completed, genStartLen>>

\* _makeChildren, lines 177-188, one loop iteration at a time.
\* (ParentPairs_WithReplacement is the draw with replace=True.)
\* np.random.choice raises ValueError when two parents are drawn from fewer
\* than two candidates (line 180) and when the batch of children is empty
\* (line 184); the exception ends evolve() with the population as culled.
ParentPairs_WithReplacement(pop) == [1..2 -> Range(pop)]
ParentPairs(pop) == Choice(Range(pop), 2)
PairRaises(pop) == Len(pop) < 2
TargetRaises(batch) == batch = <<>>

\* lines 179-182: draw mother and father, make the child
MakeChild ==
    /\ pc = "breed"
    /\ Len(children) < makeChildN
    /\ IF PairRaises(population)
       THEN /\ outcome' = "ValueError"
            /\ pc' = "idle"
            /\ cull' = NoCull
            /\ children' = <<>>
            /\ UNCHANGED <<fitness, scoreCalls, parents>>
       ELSE /\ \E pair \in ParentPairs(population) : parents' = pair
            /\ children' = children \o NewIds(1)
            /\ fitness' = fitness \o Unset(1)
            /\ scoreCalls' = scoreCalls \o NoCalls(1)
            /\ UNCHANGED <<pc, outcome, cull>>
    /\ UNCHANGED <<config, population, graveyard, bestModel, locals,
                   childToMutate, hist>>

\* lines 184-188: mutate one child of the batch, append the batch
MutateAndAppend ==
    /\ pc = "breed"
    /\ Len(children) = makeChildN
    /\ IF TargetRaises(children)
       THEN /\ outcome' = "ValueError"
            /\ pc' = "idle"
            /\ UNCHANGED <<population, childToMutate>>
       ELSE /\ childToMutate' \in Range(children)
            /\ population' = population \o children
            /\ pc' = "refill"
            /\ UNCHANGED outcome
    /\ cull' = NoCull
    /\ children' = <<>>
    /\ parents' = <<>>
    /\ UNCHANGED <<config, graveyard, bestModel, fitness, scoreCalls, locals,
                   hist>>

\* _makeRemainingRandomModels, lines 190-193; the generation ends here
\* (Missing_OneMore is the loop with "<=" in place of "<" at line 191.)
Missing_OneMore(pop) == IF Len(pop) <= popSize THEN popSize - Len(pop) + 1 ELSE 0
Missing(pop) == IF Len(pop) < popSize THEN popSize - Len(pop) ELSE 0

MakeRemainingRandomModels ==
    /\ pc = "refill"
    /\ LET n == Missing(population)
       IN /\ population' = population \o NewIds(n)
          /\ fitness' = fitness \o Unset(n)
          /\ scoreCalls' = scoreCalls \o NoCalls(n)
    /\ childToMutate' = None
    /\ completed' = completed + 1
    /\ pc' = "while"
    /\ UNCHANGED <<config, graveyard, bestModel, locals, outcome, cull,
                   children, parents, gens, genStartLen, cullSum>>

Next ==
    \/ \E mi \in IterArgs, mni \in IterArgs : Evolve(mi, mni)
    \/ LoopTest
    \/ ScoreModelsInPop
    \/ TrackBest
    \/ KillUnfit
    \/ MakeChild
    \/ MutateAndAppend
    \/ MakeRemainingRandomModels

Spec == Init /\ [][Next]_vars

\* ------------------------------------------------------------ properties
Scored == {m \in DOMAIN fitness : fitness[m] # None}
Discarded == Range(cull.pre) \ Range(population)

\* C1: a call evolve(maxIters=N, maxItersNoImprov=None) runs exactly N
\* generations: it never starts a generation once N have run, its
\* generation count never exceeds N, and it returns with the count at N.
C1_ExactlyMaxIters ==
    (maxIters # None /\ maxItersNoImprov = None) =>
        /\ iters <= maxIters
        /\ (pc = "score" => iters < maxIters)
        /\ (pc = "idle" /\ outcome = "returned" => iters = maxIters)

\* C2: with maxItersNoImprov = k configured, evolve returns at the end of
\* the first generation in which the count of consecutive non-improving
\* generations equals k: no generation is started with the count at k.
C2_StopsAtThreshold ==
    (maxItersNoImprov # None /\ pc = "score") =>
        itersNoImprov < maxItersNoImprov

\* C3: a call of evolve with both thresholds None fails at once with the
\* controller untouched: population, bestModel and graveyard unchanged, no
\* candidate made by the factory and none passed to the scorer.
C3_FailsFast ==
    [][(pc = "idle" /\ maxIters' = None /\ maxItersNoImprov' = None) =>
          /\ pc' = "idle"
          /\ outcome' = "AssertionError"
          /\ UNCHANGED <<population, bestModel, graveyard, fitness,
                         scoreCalls>>]_vars

C3_Witness ==
    /\ outcome = "AssertionError"
    /\ Len(population) > 0
    /\ bestModel # None

\* C4: the population holds exactly popSize candidates at the start and at
\* the end of every completed generation, and when evolve returns.
C4_PopSizeAtBoundaries ==
    /\ (pc = "while" /\ iters >= 1) =>
           (Len(population) = popSize /\ genStartLen = popSize)
    /\ (pc = "idle" /\ outcome = "returned") => Len(population) = popSize

\* C5: bestModel's fitness never decreases; bestModel is replaced only by
\* the best-tracking step, only when none is remembered or the new one is
\* strictly fitter, and then the non-improvement counter is reset to 0;
\* a best-tracking step that keeps bestModel adds exactly 1 to the counter.
C5_BestMonotone ==
    [][/\ bestModel # None =>
            (bestModel' # None /\ fitness'[bestModel'] >= fitness[bestModel])
       /\ bestModel' # bestModel =>
            /\ pc = "track"
            /\ bestModel = None \/ fitness'[bestModel'] > fitness[bestModel]
            /\ itersNoImprov' = 0
       /\ (pc = "track" /\ bestModel' = bestModel) =>
            itersNoImprov' = itersNoImprov + 1]_vars

C5_Witness ==
    /\ pc = "kill"
    /\ iters = 2
    /\ itersNoImprov = 0
    /\ bestModel > popSize

\* C6: once best-tracking has run, bestModel is at least as fit as every
\* candidate scored so far, in the population, culled or in the graveyard.
C6_BestDominatesScored ==
    (pc # "track" /\ Scored # {}) =>
        /\ bestModel # None
        /\ \A m \in Scored : fitness[bestModel] >= fitness[m]

C6_Witness ==
    /\ pc = "kill"
    /\ iters = 2
    /\ bestModel \in Range(graveyard)
    /\ \E m \in Range(population) : fitness[m] < fitness[bestModel]

\* C7: the scorer is invoked at most once per candidate: a scoring phase
\* scores each member with unset fitness exactly once and no member that
\* holds a fitness, and a fitness once set never changes.
C7_ScoredOnce ==
    [][\A m \in DOMAIN fitness :
          /\ scoreCalls[m] <= 1
          /\ scoreCalls'[m] <= 1
          /\ scoreCalls'[m] = 1 <=> fitness'[m] # None
          /\ fitness[m] # None =>
                (fitness'[m] = fitness[m] /\ scoreCalls'[m] = scoreCalls[m])
          /\ (pc = "score" /\ fitness[m] = None) =>
                IF m \in Range(population)
                THEN fitness'[m] # None /\ scoreCalls'[m] = 1
                ELSE fitness'[m] = None]_vars

C7_Witness ==
    /\ pc = "track"
    /\ gens = 2
    /\ \E m \in Range(population) : m <= popSize /\ scoreCalls[m] = 1
    /\ \E m \in Range(population) : m > popSize /\ scoreCalls[m] = 1

\* C8: with keepGraveyard, a culling appends exactly the pre-cull candidates
\* that are not kept, nothing else touches the graveyard, entries are never
\* removed or reordered, and its length is the sum over the cullings of
\* (pre-cull size - keepTopN - keepBtmN), one culling per completed
\* generation.
C8_GraveyardAppendOnly ==
    [][keepGraveyard =>
          /\ Len(graveyard) = cullSum
          /\ Len(graveyard') = cullSum'
          /\ SubSeq(graveyard', 1, Len(graveyard)) = graveyard
          /\ graveyard' # graveyard => pc = "kill"
          /\ pc = "kill" =>
                LET added == SubSeq(graveyard', Len(graveyard) + 1,
                                    Len(graveyard'))
                IN /\ Range(added) = Range(population) \ Range(population')
                   /\ Len(added) = Cardinality(Range(added))
                   /\ Len(added) = Len(population) - keepTopN - keepBtmN
          /\ (pc' = "while" /\ pc = "refill") =>
                (gens' = completed'
                 /\ Len(graveyard') =
                      completed' * (popSize - keepTopN - keepBtmN))]_vars

C8_Witness ==
    /\ keepGraveyard
    /\ pc = "while"
    /\ completed = 2
    /\ Len(graveyard) >= 2

\* C9: in every culling the top-keep and bottom-keep index sets are
\* disjoint, bottom-keep holds keepBtmN distinct non-top indices, and the
\* post-cull population is exactly the candidates at those indices, top
\* first, of size keepTopN + keepBtmN.
C9_KeepSetsDisjoint ==
    pc = "breed" =>
        /\ cull.top \cap Range(cull.btm) = {}
        /\ Len(cull.btm) = keepBtmN
        /\ Cardinality(Range(cull.btm)) = keepBtmN
        /\ Range(cull.btm) \subseteq (1..Len(cull.pre)) \ (1..keepTopN)
        /\ Cardinality(cull.top) = keepTopN
        /\ Len(population) = keepTopN + keepBtmN
        /\ Cardinality(Range(population)) = keepTopN + keepBtmN
        /\ Range(population) =
              {cull.pre[i] : i \in cull.top \cup Range(cull.btm)}

C9_Witness ==
    /\ pc = "breed"
    /\ keepTopN >= 1
    /\ keepBtmN = 2
    /\ cull.btm[1] > cull.btm[2]

\* C10: in every culling the pre-cull population is in descending fitness
\* order, its first keepTopN candidates all survive, and no discarded
\* candidate is strictly fitter than a top-keep survivor.
C10_Elitism ==
    pc = "breed" =>
        /\ \A i, j \in 1..Len(cull.pre) :
              i < j => fitness[cull.pre[i]] >= fitness[cull.pre[j]]
        /\ \A i \in 1..keepTopN : cull.pre[i] \in Range(population)
        /\ \A i \in 1..keepTopN : \A m \in Discarded :
              fitness[m] <= fitness[cull.pre[i]]

C10_Witness ==
    /\ pc = "breed"
    /\ keepTopN >= 1
    /\ \E m \in Discarded : fitness[m] < fitness[cull.pre[1]]
    /\ \E m \in Discarded : \E k \in Range(population) :
          fitness[m] > fitness[k]

\* ---- breeding ----

\* the candidates that came through the culling of the running generation
Survivors == {cull.pre[i] : i \in cull.top \cup Range(cull.btm)}
\* position of a candidate in a list that holds it once
Pos(seq, m) == CHOOSE i \in 1..Len(seq) : seq[i] = m

\* C12: for every accepted configuration the breeding phase of every
\* generation completes, and the one candidate it mutates is a child of that
\* phase: it holds no fitness and stands behind the survivors.
C12_BreedingCompletes ==
    /\ outcome # "ValueError"
    /\ pc = "refill" =>
         /\ childToMutate # None
         /\ fitness[childToMutate] = None
         /\ Pos(population, childToMutate) > keepTopN + keepBtmN

C14_PhaseSizes ==
    [][/\ pc = "breed" => Len(population) = keepTopN + keepBtmN
       /\ pc = "refill" =>
            /\ Len(population) = keepTopN + keepBtmN + makeChildN
            /\ Len(population') =
                 Len(population) + (popSize - (keepTopN + keepBtmN + makeChildN))
            /\ SubSeq(population', 1, Len(population)) = population
            /\ \A i \in (Len(population) + 1)..Len(population') :
                 /\ population'[i] \notin DOMAIN fitness
                 /\ fitness'[population'[i]] = None]_vars

\* C14 witness: a generation has ended whose refill added one candidate to
\* the three that culling and breeding left.
C14_Witness ==
    /\ pc = "while"
    /\ completed >= 1
    /\ outcome = "running"
    /\ keepTopN + keepBtmN + makeChildN = popSize - 1
    /\ makeChildN >= 1
    /\ Len(population) = popSize
    /\ fitness[population[popSize]] = None

\* ---- initialization ----

\* C15: candidates are created at the entry of evolve() only when the
\* population is empty, and then exactly popSize new ones without fitness
\* make up the population; an evolve() call on a non-empty population
\* leaves population and fitness as they are; in both cases bestModel and
\* graveyard are kept and the two counters start at 0.
C15_InitOnlyWhenEmpty ==
    [][pc = "idle" =>
         IF outcome' = "AssertionError"
         THEN population' = population /\ fitness' = fitness
         ELSE /\ population = <<>> =>
                   /\ Len(population') = popSize
                   /\ Cardinality(Range(population')) = popSize
                   /\ \A m \in Range(population') :
                        m \notin DOMAIN fitness /\ fitness'[m] = None
              /\ population # <<>> =>
                   population' = population /\ fitness' = fitness
              /\ bestModel' = bestModel
              /\ graveyard' = graveyard
              /\ iters' = 0
              /\ itersNoImprov' = 0]_vars

\* C15 witness: evolve() was entered again on a population that holds
\* scored candidates and a remembered best; the counters are back at 0.
C15_Witness ==
    /\ pc = "while"
    /\ outcome = "running"
    /\ iters = 0
    /\ itersNoImprov = 0
    /\ bestModel # None
    /\ gens >= 1
    /\ Len(population) = popSize
    /\ \E m \in Range(population) : fitness[m] # None

\* ---- sorting ----

\* the candidates made by the breeding and refill of the last generation
LastMade == {m \in DOMAIN fitness :
               m > Len(fitness) - (popSize - keepTopN - keepBtmN)}

\* C16: the sort permutes the population into descending fitness and keeps
\* candidates of equal fitness in their order from before the sort; the
\* head, which the generation takes as its best, is the earliest of the
\* candidates with maximal fitness; a candidate made in the last generation
\* never stands before a survivor of equal fitness.
C16_StableDescendingSort ==
    [][pc = "track" =>
         /\ Len(population') = Len(population)
         /\ Range(population') = Range(population)
         /\ \A i, j \in 1..Len(population') : i < j =>
              /\ fitness[population'[i]] >= fitness[population'[j]]
              /\ fitness[population'[i]] = fitness[population'[j]] =>
                   Pos(population, population'[i]) < Pos(population, population'[j])
         /\ \A i \in 1..Len(population) :
              (\A j \in 1..Len(population) :
                   fitness[population[j]] <= fitness[population[i]]) =>
                 Pos(population, population'[1]) <= i
         /\ bestModel' \in {bestModel, population'[1]}
         /\ iters >= 1 =>
              \A i, j \in 1..Len(population') :
                 (/\ i < j
                  /\ fitness[population'[i]] = fitness[population'[j]]
                  /\ population'[j] \notin LastMade) =>
                    population'[i] \notin LastMade]_vars

\* C16 witness: in a second generation a candidate made in the first one
\* ties the maximal fitness of a survivor, and the survivor is at the head
\* and is the remembered best.
C16_Witness ==
    /\ pc = "kill"
    /\ iters = 2
    /\ population[1] \notin LastMade
    /\ bestModel = population[1]
    /\ \E m \in Range(population) \cap LastMade :
         fitness[m] = fitness[population[1]]

\* ---- counts ----

C18_BestStaysInPopulation ==
    (keepTopN >= 1 /\ bestModel # None) =>
        /\ (pc = "while" /\ completed >= 1) => bestModel \in Range(population)
        /\ pc = "breed" => bestModel \notin Discarded
        /\ bestModel \notin Range(graveyard)

\* C18 witness: a second generation was completed with a graveyard in use,
\* candidates were buried, and the best is still the one of the first
\* generation.
C18_Witness ==
    /\ pc = "while"
    /\ completed >= 2
    /\ keepTopN >= 1
    /\ keepGraveyard
    /\ Len(graveyard) >= 2
    /\ itersNoImprov >= 1
    /\ bestModel \in Range(population)

\* ---- fitness at the end of a generation ----

\* C19: at the end of a completed generation the keepTopN + keepBtmN
\* survivors, at the front of the population, hold a fitness and the
\* popSize - keepTopN - keepBtmN candidates behind them hold none; every
\* candidate of a population that is sorted or culled holds a fitness.
C19_OnlySurvivorsScored ==
    /\ (pc = "while" /\ iters >= 1) =>
         /\ Len(population) = popSize
         /\ \A i \in 1..Len(population) :
              (fitness[population[i]] # None) <=> (i <= keepTopN + keepBtmN)
         /\ Cardinality({i \in 1..Len(population) :
                           scoreCalls[population[i]] = 0})
              = popSize - keepTopN - keepBtmN
    /\ pc \in {"track", "kill"} =>
         \A m \in Range(population) : fitness[m] # None
    /\ \A m \in Range(cull.pre) \cup Range(graveyard) : fitness[m] # None

\* C19 witness: a generation has ended with two scored survivors and two
\* candidates that were never scored.
C19_Witness ==
    /\ pc = "while"
    /\ iters >= 1
    /\ keepTopN + keepBtmN = 2
    /\ popSize = 4
    /\ fitness[population[2]] # None
    /\ scoreCalls[population[3]] = 0
    /\ scoreCalls[population[4]] = 0

====
